---- MODULE Spec2Model ----
(***************************************************************************)
(* A model of src/task/lock.rs: SpinLock<T>, a busy-wait lock around an    *)
(* UnsafeCell<T>, and its scoped LockGuard.                                *)
(*                                                                         *)
(* Every action holds exactly one access to shared memory (an atomic swap  *)
(* of the flag, or one access to the cell through a guard) together with   *)
(* the thread-local steps next to it: the construction of the LockGuard    *)
(* value that follows the winning swap of lock() belongs to that swap's    *)
(* step.                                                                   *)
(*                                                                         *)
(* The cell is plain (non-atomic) memory.  Its visibility is modelled by   *)
(* views: seen[t] says that thread t's view holds the latest write to the  *)
(* cell, published says that the view released with the flag's latest      *)
(* value holds it.  A SeqCst swap joins the two views; a read of the cell  *)
(* by a thread whose view is behind is a data race and may return any      *)
(* value.                                                                  *)
(***************************************************************************)
EXTENDS Naturals, FiniteSets

VARIABLES
    lock,       \* SpinLock.lock: the AtomicBool
    handle,     \* SpinLock.handle: the protected value
    pc,         \* per thread: "run" (caller code), "spin" (inside lock()), "dead"
    guards,     \* per thread: number of live LockGuard values it owns
    local,      \* per thread: the value it last read or wrote through its guard
    spun,       \* per thread: a swap of the lock() call it is in, or whose
                \* guard it holds, read true
    everHeld,   \* per thread: one of its lock() calls has returned
    seen,       \* per thread: its view holds the latest write to the cell
    published,  \* the view released with the flag holds the latest write
    writer,     \* the thread of the latest write to the cell ({} after new())
    acquired,   \* number of lock() calls that have returned a guard
    released    \* number of times the flag was cleared

vars == <<lock, handle, pc, guards, local, spun, everHeld, seen, published, writer,
          acquired, released>>

NumThreads == 3
MaxVal == 1
MaxCount == 3

Threads == 1..NumThreads
Values == 0..MaxVal

\* ---------------------------------------------------------------- atomics

\* A lock() whose swap stores false: the flag is never set.
LockStoreNoSet == FALSE
\* lock.swap(true, SeqCst) in lock(): the value stored.
LockStore == TRUE

\* A swap that reports false whatever the flag held.
SwapPrevStale(flag) == FALSE
\* The value an atomic swap returns: the flag's previous value.
SwapPrev(flag) == flag

\* A drop() whose swap stores true: the flag is never cleared.
DropStoreKeep == TRUE
\* lock.swap(false, SeqCst) in drop(): the value stored.
DropStore == FALSE

\* Ordering::Relaxed on a swap: nothing is acquired or released.
OrderingRelaxed(mine, flags) == mine
\* Ordering::SeqCst on a swap: the thread's view and the flag's view are joined.
OrderingSeqCst(mine, flags) == mine \/ flags

\* ---------------------------------------------------------------- SpinLock

\* A new() that builds the flag with AtomicBool::new(true).
InitLocked ==
    /\ lock = TRUE
    /\ handle \in Values
    /\ pc = [t \in Threads |-> "run"]
    /\ guards = [t \in Threads |-> 0]
    /\ local = [t \in Threads |-> {}]
    /\ spun = [t \in Threads |-> FALSE]
    /\ everHeld = [t \in Threads |-> FALSE]
    /\ seen = [t \in Threads |-> TRUE]
    /\ published = TRUE
    /\ writer = {}
    /\ acquired = 0
    /\ released = 0
\* SpinLock::new(t): the value is t, the flag is false; no guard exists.
Init ==
    /\ lock = FALSE
    /\ handle \in Values
    /\ pc = [t \in Threads |-> "run"]
    /\ guards = [t \in Threads |-> 0]
    /\ local = [t \in Threads |-> {}]
    /\ spun = [t \in Threads |-> FALSE]
    /\ everHeld = [t \in Threads |-> FALSE]
    /\ seen = [t \in Threads |-> TRUE]
    /\ published = TRUE
    /\ writer = {}
    /\ acquired = 0
    /\ released = 0

\* A thread calls lock(): it enters the loop of line 34.
LockEnter(t) ==
    /\ pc[t] = "run"
    /\ pc' = [pc EXCEPT ![t] = "spin"]
    /\ spun' = [spun EXCEPT ![t] = FALSE]
    /\ UNCHANGED <<lock, handle, guards, local, everHeld, seen, published, writer>>

\* A loop whose atomic operation flips the flag instead of setting it.
LockSwapFlip(t) ==
    /\ pc[t] = "spin"
    /\ lock' = ~lock
    /\ seen' = [seen EXCEPT ![t] = OrderingSeqCst(seen[t], published)]
    /\ published' = OrderingSeqCst(seen[t], published)
    /\ IF SwapPrev(lock)
       THEN /\ spun' = [spun EXCEPT ![t] = TRUE]
            /\ UNCHANGED <<pc, guards, everHeld>>
       ELSE /\ pc' = [pc EXCEPT ![t] = "run"]
            /\ guards' = [guards EXCEPT ![t] = @ + 1]
            /\ everHeld' = [everHeld EXCEPT ![t] = TRUE]
            /\ UNCHANGED spun
    /\ UNCHANGED <<handle, local, writer>>
\* One iteration of `while self.lock.swap(true, SeqCst) {}`; when the swap
\* read false the loop ends and LockGuard { inner: self } is returned.
LockSwap(t) ==
    /\ pc[t] = "spin"
    /\ lock' = LockStore
    /\ seen' = [seen EXCEPT ![t] = OrderingSeqCst(seen[t], published)]
    /\ published' = OrderingSeqCst(seen[t], published)
    /\ IF SwapPrev(lock)
       THEN /\ spun' = [spun EXCEPT ![t] = TRUE]
            /\ UNCHANGED <<pc, guards, everHeld>>
       ELSE /\ pc' = [pc EXCEPT ![t] = "run"]
            /\ guards' = [guards EXCEPT ![t] = @ + 1]
            /\ everHeld' = [everHeld EXCEPT ![t] = TRUE]
            /\ UNCHANGED spun
    /\ UNCHANGED <<handle, local, writer>>

\* ---------------------------------------------------------------- LockGuard

\* Deref::deref: a read of the cell through a live guard.
Deref(t) ==
    /\ pc[t] = "run"
    /\ guards[t] > 0
    /\ \E v \in Values :
        /\ seen[t] => v = handle
        /\ local' = [local EXCEPT ![t] = {v}]
    /\ UNCHANGED <<lock, handle, pc, guards, spun, everHeld, seen, published, writer>>

\* DerefMut::deref_mut: a write of the cell through a live guard.
DerefMut(t, v) ==
    /\ pc[t] = "run"
    /\ guards[t] > 0
    /\ handle' = v
    /\ local' = [local EXCEPT ![t] = {v}]
    /\ seen' = [u \in Threads |-> u = t]
    /\ published' = FALSE
    /\ writer' = {t}
    /\ UNCHANGED <<lock, pc, guards, spun, everHeld>>

\* A drop() that also resets the protected value.
DropGuardClobber(t) ==
    /\ lock' = DropStore
    /\ seen' = [seen EXCEPT ![t] = OrderingSeqCst(seen[t], published)]
    /\ published' = OrderingSeqCst(seen[t], published)
    /\ guards' = [guards EXCEPT ![t] = @ - 1]
    /\ local' = [local EXCEPT ![t] = {}]
    /\ handle' = 0
    /\ spun' = [spun EXCEPT ![t] = FALSE]
    /\ UNCHANGED <<everHeld, writer>>
\* Drop::drop: self.inner.lock.swap(false, SeqCst); the guard and the
\* references borrowed from it are gone.
DropGuard(t) ==
    /\ lock' = DropStore
    /\ seen' = [seen EXCEPT ![t] = OrderingSeqCst(seen[t], published)]
    /\ published' = OrderingSeqCst(seen[t], published)
    /\ guards' = [guards EXCEPT ![t] = @ - 1]
    /\ local' = [local EXCEPT ![t] = {}]
    /\ spun' = [spun EXCEPT ![t] = FALSE]
    /\ UNCHANGED <<handle, everHeld, writer>>

\* The guard's scope ends normally (end of block, drop(guard), early return).
Drop(t) ==
    /\ pc[t] = "run"
    /\ guards[t] > 0
    /\ DropGuard(t)
    /\ UNCHANGED pc

\* An unwinding that skips the guard's drop.
UnwindNoDrop(t) ==
    /\ pc[t] = "run"
    /\ guards[t] > 0
    /\ guards' = [guards EXCEPT ![t] = @ - 1]
    /\ local' = [local EXCEPT ![t] = {}]
    /\ pc' = [pc EXCEPT ![t] = "dead"]
    /\ spun' = [spun EXCEPT ![t] = FALSE]
    /\ UNCHANGED <<lock, handle, everHeld, seen, published, writer>>
\* The code under the guard panics: unwinding runs the guard's drop, then
\* the thread ends.
Unwind(t) ==
    /\ pc[t] = "run"
    /\ guards[t] > 0
    /\ DropGuard(t)
    /\ pc' = [pc EXCEPT ![t] = "dead"]

\* The counts are kept only by the specification that counts (SpecCount).
Uncounted == UNCHANGED <<acquired, released>>

Next ==
    \E t \in Threads :
        \/ LockEnter(t) /\ Uncounted
        \/ LockSwap(t) /\ Uncounted
        \/ Deref(t) /\ Uncounted
        \/ \E v \in Values : DerefMut(t, v) /\ Uncounted
        \/ Drop(t) /\ Uncounted
        \/ Unwind(t) /\ Uncounted

Spec == Init /\ [][Next]_vars

\* No acquisition is requested or held: every thread is outside lock() and
\* owns no guard.
Quiet == \A u \in Threads : pc[u] # "spin" /\ guards[u] = 0

\* Sequential use: lock() is called only while no other acquisition is
\* requested or held, by any number of threads in turn, any number of times.
NextSeq ==
    \E t \in Threads :
        \/ Quiet /\ LockEnter(t) /\ Uncounted
        \/ LockSwap(t) /\ Uncounted
        \/ Deref(t) /\ Uncounted
        \/ \E v \in Values : DerefMut(t, v) /\ Uncounted
        \/ Drop(t) /\ Uncounted
        \/ Unwind(t) /\ Uncounted

SpecSeq == Init /\ [][NextSeq]_vars

\* The scenario of tests::test_lock: two threads, each of which calls lock()
\* once and later leaves the guard's scope.  A thread inside lock() keeps
\* executing its loop (it is never parked), which is weak fairness of its swap.
Thread1 == 1
Thread2 == 2
Pair == {Thread1, Thread2}

NextSimple ==
    \E t \in Pair :
        \/ ~everHeld[t] /\ LockEnter(t) /\ Uncounted
        \/ LockSwap(t) /\ Uncounted
        \/ Deref(t) /\ Uncounted
        \/ \E v \in Values : DerefMut(t, v) /\ Uncounted
        \/ Drop(t) /\ Uncounted
        \/ Unwind(t) /\ Uncounted

SpecSimple ==
    /\ Init
    /\ [][NextSimple]_vars
    /\ \A t \in Pair : WF_vars(LockSwap(t) /\ Uncounted)

\* Two threads that lock and release repeatedly, with the acquisitions (a
\* lock() returned a guard) and the releases (the flag went from true to
\* false) counted, up to MaxCount acquisitions.
Counted ==
    /\ acquired' = IF \E u \in Threads : guards'[u] > guards[u]
                   THEN acquired + 1 ELSE acquired
    /\ released' = IF lock /\ ~lock' THEN released + 1 ELSE released
    /\ acquired' <= MaxCount

NextCount ==
    \E t \in Pair :
        \/ LockEnter(t) /\ Counted
        \/ LockSwap(t) /\ Counted
        \/ Deref(t) /\ Counted
        \/ \E v \in Values : DerefMut(t, v) /\ Counted
        \/ Drop(t) /\ Counted
        \/ Unwind(t) /\ Counted

SpecCount == Init /\ [][NextCount]_vars

\* A schedule that starves one thread: the victim's swaps all fall at moments
\* when the flag is set, while the other threads lock, use and release the
\* value over and over (no nested lock(), no panic).  The fairness below
\* describes this schedule: the others keep running, and the victim keeps
\* executing its loop.
Victim == Thread1
Others == Threads \ {Victim}

NextStarve ==
    \E t \in Threads :
        \/ guards[t] = 0 /\ LockEnter(t) /\ Uncounted
        \/ (t = Victim => lock) /\ LockSwap(t) /\ Uncounted
        \/ Deref(t) /\ Uncounted
        \/ \E v \in Values : DerefMut(t, v) /\ Uncounted
        \/ Drop(t) /\ Uncounted

SpecStarve ==
    /\ Init
    /\ [][NextStarve]_vars
    /\ WF_vars(LockEnter(Victim) /\ Uncounted)
    /\ SF_vars(lock /\ LockSwap(Victim) /\ Uncounted)
    /\ \A t \in Others :
        /\ WF_vars(guards[t] = 0 /\ LockEnter(t) /\ Uncounted)
        /\ WF_vars(LockSwap(t) /\ Uncounted)
        /\ WF_vars(Drop(t) /\ Uncounted)

\* Callers that never call lock() while holding a guard and always leave
\* the guard's scope in the end (normally or by unwinding); a thread inside
\* lock() keeps executing its loop.  Only the operations on the flag are
\* taken: lock() and the end of a guard's scope.
NextProgress ==
    \E t \in Threads :
        \/ guards[t] = 0 /\ LockEnter(t) /\ Uncounted
        \/ LockSwap(t) /\ Uncounted
        \/ Drop(t) /\ Uncounted
        \/ Unwind(t) /\ Uncounted

SpecProgress ==
    /\ Init
    /\ [][NextProgress]_vars
    /\ \A t \in Threads :
        /\ WF_vars(LockSwap(t) /\ Uncounted)
        /\ WF_vars((Drop(t) \/ Unwind(t)) /\ Uncounted)

\* ---------------------------------------------------------------- properties

Holders == {t \in Threads : guards[t] > 0}

\* C1. Mutual exclusion: in every reachable state at most one LockGuard is
\* live, whatever the number of threads in lock(): no thread owns two guards
\* and no two threads own one each, so a second lock() has not returned
\* while the first guard is live.
MutualExclusion ==
    /\ \A t \in Threads : guards[t] <= 1
    /\ Cardinality(Holders) <= 1

\* A thread holds the guard while another has swapped and read true.
MutualExclusionWitness ==
    \E t, u \in Threads :
        /\ t # u
        /\ guards[t] = 1 /\ pc[t] = "run"
        /\ pc[u] = "spin" /\ spun[u] /\ guards[u] = 0

\* C9. The flag is true exactly when a LockGuard of the SpinLock is live.
FlagIffGuardLive == lock <=> (Holders # {})

\* The flag is true under a second guard, after an earlier guard was dropped.
FlagIffGuardLiveWitness ==
    \E t, u \in Threads :
        /\ t # u
        /\ lock /\ guards[t] = 1
        /\ everHeld[u] /\ guards[u] = 0 /\ pc[u] = "run"

\* C3. Release on every exit path: the step in which the code under a guard
\* unwinds clears the flag, ends the guard and leaves the protected value as
\* it was (nothing is marked); no dead thread keeps the lock held, and a swap
\* that finds the flag clear after an unwind returns a guard.
ReleaseOnUnwind ==
    /\ [](\A t \in Threads : pc[t] = "dead" =>
            /\ guards[t] = 0
            /\ lock => \E u \in Threads : pc[u] # "dead" /\ guards[u] = 1)
    /\ [][\A t \in Threads : (pc[t] = "run" /\ pc'[t] = "dead") =>
            /\ guards[t] = 1 /\ guards'[t] = 0
            /\ lock /\ ~lock'
            /\ handle' = handle]_vars
    /\ [][\A u \in Threads :
            ((\E t \in Threads : pc[t] = "dead") /\ ~lock /\ LockSwap(u)) =>
                guards'[u] = 1 /\ pc'[u] = "run"]_vars

\* A thread unwound under its guard, and another thread's later lock()
\* returned a guard.
ReleaseOnUnwindWitness ==
    \E t, u \in Threads :
        /\ pc[t] = "dead" /\ everHeld[t]
        /\ pc[u] = "run" /\ guards[u] = 1 /\ lock

\* C4. Happens-before visibility: the view of every guard holder holds the
\* latest write to the protected value, so what a thread has read through
\* its guard is the value of the most recent write made under any guard.
HappensBeforeVisibility ==
    \A t \in Threads :
        /\ guards[t] > 0 => seen[t]
        /\ (guards[t] > 0 /\ local[t] # {}) => local[t] = {handle}

\* Thread u wrote under its guard and released; t then acquired and read
\* that value through its own guard.
HappensBeforeVisibilityWitness ==
    \E t, u \in Threads :
        /\ t # u
        /\ writer = {u} /\ guards[u] = 0
        /\ guards[t] = 1 /\ local[t] = {handle}

\* C5. Observed-consistency: while a thread is in the middle of an update
\* (it has read or written the value through its live guard), the value is
\* still the one it last read or wrote, no other thread holds a reference to
\* the value, and every access to the value in a step is by that thread.
ObservedConsistency ==
    /\ [](\A t \in Threads : local[t] # {} =>
            /\ guards[t] = 1
            /\ local[t] = {handle}
            /\ \A u \in Threads \ {t} : local[u] = {})
    /\ [][\A t \in Threads : local[t] # {} =>
            \A u \in Threads \ {t} :
                ~(Deref(u) \/ \E v \in Values : DerefMut(u, v))]_vars

\* A thread read the value and then wrote another one under the same guard
\* while a second thread was spinning in lock().
ObservedConsistencyWitness ==
    \E t, u \in Threads :
        /\ t # u
        /\ guards[t] = 1 /\ writer = {t} /\ local[t] = {handle}
        /\ pc[u] = "spin" /\ spun[u]

\* C2. Liveness under simple contention (two threads, one lock() each): once
\* the first holder has left its guard's scope, a thread spinning in lock()
\* eventually returns with a guard.
SimpleContentionLiveness ==
    \A a, b \in Pair :
        (a # b /\ everHeld[a] /\ guards[a] = 0 /\ pc[b] = "spin" /\ guards[b] = 0)
            ~> (guards[b] = 1 /\ pc[b] = "run")

\* b read true while a held the guard, and has its guard after a's drop.
SimpleContentionLivenessWitness ==
    \E a, b \in Pair :
        /\ a # b
        /\ everHeld[a] /\ guards[a] = 0
        /\ guards[b] = 1 /\ spun[b] /\ pc[b] = "run"

\* C6. Reusability: in sequential use every acquisition succeeds on its first
\* swap, however many came before it: no swap ever reads true, a thread in
\* lock() finds the flag clear, and the flag is clear whenever no guard is
\* live, so the lock is back at UNLOCKED after each cycle.
Reusability ==
    /\ [](\A t \in Threads :
            /\ ~spun[t]
            /\ pc[t] = "spin" => ~lock
            /\ Quiet => ~lock)
    /\ [][\A t \in Threads : LockSwap(t) =>
            pc'[t] = "run" /\ guards'[t] = 1]_vars

\* A thread holds a guard again after it and another thread had each held
\* and released one.
ReusabilityWitness ==
    \E t, u \in Threads :
        /\ t # u
        /\ guards[t] = 1 /\ writer = {t} /\ local[t] = {}
        /\ everHeld[u] /\ guards[u] = 0

\* C7. Self-deadlock: a thread inside lock() that owns a live guard of the
\* same SpinLock stays inside lock() for ever: the flag is and stays true,
\* every swap of its reads true, its guard is never dropped, and the thread
\* does not fail.
SelfDeadlock ==
    /\ [](\A t \in Threads : (pc[t] = "spin" /\ guards[t] > 0) => lock)
    /\ [][\A t \in Threads : (pc[t] = "spin" /\ guards[t] > 0) =>
            pc'[t] = "spin" /\ guards'[t] = guards[t] /\ lock']_vars

\* A guard holder called lock() again and its swap read true.
SelfDeadlockWitness ==
    \E t \in Threads : pc[t] = "spin" /\ guards[t] = 1 /\ spun[t]

\* C8. The protected value is accessed only through the live guard: a step
\* that changes it is a write by the running guard holder, a thread gets a
\* reference only while it holds the guard, entering lock(), a swap of lock()
\* and the end of a guard's scope leave the value as it is, and the value of
\* new() stays until the first write.
ValueOnlyThroughGuard ==
    [][/\ handle' # handle =>
            \E t \in Threads :
                /\ pc[t] = "run" /\ guards[t] = 1 /\ guards'[t] = 1
                /\ local'[t] = {handle'} /\ writer' = {t}
       /\ \A t \in Threads :
            /\ (local'[t] # local[t] /\ local'[t] # {}) =>
                    (pc[t] = "run" /\ guards[t] = 1)
            /\ (LockEnter(t) \/ LockSwap(t) \/ Drop(t) \/ Unwind(t)) =>
                    handle' = handle
       /\ writer' = {} => handle' = handle]_vars

\* The value of new() is read by a second guard holder after a first guard
\* was dropped, with no write so far.
ValueOnlyThroughGuardWitness ==
    \E t, u \in Threads :
        /\ t # u
        /\ writer = {}
        /\ everHeld[u] /\ guards[u] = 0
        /\ guards[t] = 1 /\ local[t] = {handle}

\* C10. A swap of lock() that reads false returns a guard at once and one
\* that reads true returns none; a step that takes the flag from false to
\* true gives a guard to exactly one thread and leaves every other thread in
\* lock() spinning.
OneWinnerPerTransition ==
    /\ [][\A t \in Threads : LockSwap(t) =>
            /\ ~lock => (pc'[t] = "run" /\ guards'[t] = guards[t] + 1)
            /\ lock => (pc'[t] = "spin" /\ guards' = guards /\ spun'[t])]_vars
    /\ [][(~lock /\ lock') =>
            /\ Cardinality({t \in Threads : guards'[t] > guards[t]}) = 1
            /\ \A t \in Threads :
                    (pc[t] = "spin" /\ guards'[t] = guards[t]) => pc'[t] = "spin"]_vars

\* Two threads were spinning when a third dropped its guard: one of them
\* won the flag and the other read true again.
OneWinnerPerTransitionWitness ==
    \E t, u, w \in Threads :
        /\ t # u /\ t # w /\ u # w
        /\ guards[t] = 1 /\ spun[t]
        /\ pc[u] = "spin" /\ spun[u]
        /\ everHeld[w] /\ guards[w] = 0 /\ pc[w] = "run"

\* C11. A failed acquisition attempt changes nothing: a swap of lock() that
\* reads true leaves the flag true, every guard live, the protected value
\* and the references to it as they were, and the thread in the loop; and
\* the flag is cleared only in a step that ends the running holder's guard,
\* never by a thread in lock().
FailedSwapChangesNothing ==
    /\ [][\A t \in Threads : (lock /\ LockSwap(t)) =>
            /\ lock'
            /\ guards' = guards
            /\ handle' = handle /\ local' = local /\ writer' = writer
            /\ pc' = pc /\ pc'[t] = "spin"]_vars
    /\ [][(lock /\ ~lock') =>
            \E h \in Threads :
                pc[h] = "run" /\ guards[h] = 1 /\ guards'[h] = 0]_vars

\* Two threads have each swapped and read true while a third holds the guard.
FailedSwapChangesNothingWitness ==
    \E h, u, w \in Threads :
        /\ h # u /\ h # w /\ u # w
        /\ lock /\ guards[h] = 1 /\ pc[h] = "run"
        /\ pc[u] = "spin" /\ spun[u] /\ guards[u] = 0
        /\ pc[w] = "spin" /\ spun[w] /\ guards[w] = 0

\* C12. Each guard clears the flag exactly once, at the end of its scope:
\* the releases never exceed the acquisitions and are at most one behind
\* them, the difference being the number of live guards; a step clears the
\* flag exactly when it ends the guard of the running holder, and a step
\* that returns a guard takes the flag from false to true.
OneReleasePerGuard ==
    /\ [](/\ released <= acquired
          /\ acquired <= released + 1
          /\ acquired = released + Cardinality(Holders))
    /\ [][(lock /\ ~lock') <=>
            \E h \in Threads :
                /\ pc[h] = "run" /\ guards[h] = 1 /\ guards'[h] = 0
                /\ \A u \in Threads \ {h} : guards'[u] = guards[u]]_vars
    /\ [][(\E t \in Threads : guards'[t] > guards[t]) => (~lock /\ lock')]_vars

\* A second guard is live after the first was dropped: two acquisitions,
\* one release.
OneReleasePerGuardWitness ==
    /\ acquired = 2 /\ released = 1
    /\ \E t, u \in Pair :
        /\ t # u
        /\ guards[t] = 1 /\ everHeld[u] /\ guards[u] = 0

\* C13. A freshly constructed SpinLock is UNLOCKED: as long as no lock()
\* has returned, the flag is false, no guard and no reference exists, no swap
\* has read true and the protected value stays the one given to new(); the
\* first swap on it returns a guard.
FreshIsUnlocked ==
    /\ []((\A t \in Threads : ~everHeld[t]) =>
            /\ ~lock /\ Holders = {} /\ writer = {}
            /\ \A t \in Threads : ~spun[t] /\ local[t] = {})
    /\ [][(\A t \in Threads : ~everHeld[t]) =>
            /\ handle' = handle
            /\ \A t \in Threads : LockSwap(t) =>
                    (pc'[t] = "run" /\ guards'[t] = 1 /\ ~spun'[t])]_vars

\* The first lock() on the SpinLock returned without a failed swap and its
\* guard reads the value of new().
FreshIsUnlockedWitness ==
    \E t \in Threads :
        /\ guards[t] = 1 /\ ~spun[t] /\ writer = {} /\ local[t] = {handle}
        /\ \A u \in Threads \ {t} : ~everHeld[u]

\* C14. Starvation is possible under weak fairness: every behaviour of the
\* starving schedule is a weakly fair execution of the lock (the swap of
\* every thread, the victim's included, is weakly fair, and every holder
\* releases its guard), the flag is taken and released again and again, and
\* yet the victim, once in lock(), never leaves it.
StarvationPossible ==
    /\ \A t \in Threads : WF_vars(LockSwap(t) /\ Uncounted)
    /\ \A t \in Threads : [](guards[t] = 1 => <>(guards[t] = 0))
    /\ []<>lock /\ []<>(~lock)
    /\ <>[](pc[Victim] = "spin" /\ guards[Victim] = 0 /\ spun[Victim])

\* The victim has read true, and a thread that has already written under
\* an earlier guard of its own holds the guard again.
StarvationPossibleWitness ==
    \E t \in Others :
        /\ pc[Victim] = "spin" /\ spun[Victim] /\ guards[Victim] = 0
        /\ guards[t] = 1 /\ writer = {t} /\ local[t] = {}
        /\ \A u \in Others : everHeld[u]

Spinners == {t \in Threads : pc[t] = "spin"}

\* C15. System-wide progress: the flag is never true without a live guard;
\* and when a thread is spinning in lock(), the live guard (if any) is
\* released with the spinner still waiting, and from a free flag with a
\* spinner some lock() returns a guard.
SystemProgress ==
    /\ [](lock => Holders # {})
    /\ (Spinners # {} /\ Holders # {}) ~> (Spinners # {} /\ Holders = {} /\ ~lock)
    /\ (Spinners # {} /\ Holders = {}) ~> (Holders # {})

\* A thread that read true got its guard after two other threads had held
\* and released theirs, one of them by unwinding.
SystemProgressWitness ==
    \E t, u, w \in Threads :
        /\ t # u /\ t # w /\ u # w
        /\ guards[t] = 1 /\ spun[t] /\ pc[t] = "run"
        /\ everHeld[u] /\ guards[u] = 0 /\ pc[u] = "run"
        /\ pc[w] = "dead"

\* Per-thread progress, which C14 denies: TLC refutes it under SpecProgress
\* with a behaviour in which other threads take the flag every time.
EveryWaiterAcquires ==
    \A t \in Threads : (pc[t] = "spin") ~> (guards[t] = 1)

====
